---- MODULE Spec2Model ----
(***************************************************************************)
(* Meeting lifecycle of the meetyfi backend: the Meeting and ProposedDate  *)
(* rows and the service functions that write them                          *)
(* (app/services/manager_service.py, app/services/employee_service.py).    *)
(* One action per service function; an action is the whole function, from  *)
(* its first query to its last commit.  The value the function hands back  *)
(* to its caller (or the exception it raises) is recorded in last.         *)
(***************************************************************************)
EXTENDS Integers, Sequences, FiniteSets

VARIABLES
    meetings,        \* Meeting rows, indexed by id (1..Len)
    proposed_dates,  \* ProposedDate rows in insertion order
    last,            \* the last call: which function, and how it ended
    manager_rows,    \* Manager rows (app.database), indexed by id
    employee_rows,   \* Employee rows created by the signup functions
    locations,       \* Location rows in insertion order
    users,           \* documents of the users collection (api/v1/endpoints)
    employee_docs,   \* documents of the employees collection (api/v1/endpoints)
    now,             \* the reading of datetime.utcnow(), minutes
    in_flight        \* requests that have read the database and not yet written

vars == <<meetings, proposed_dates, last, manager_rows, employee_rows,
          locations, users, employee_docs, now, in_flight>>

\* What the meeting functions neither read nor write
other_tables == <<manager_rows, employee_rows, locations, users,
                  employee_docs, now, in_flight>>

\* The tables of the meeting functions
meeting_tables == <<meetings, proposed_dates>>

----------------------------------------------------------------------------
(* Bounds of the model *)

MaxMeetings == 1     \* Meeting rows ever inserted
MaxLen == 2          \* longest employee_ids / proposed_dates list tried
MaxClock == 3        \* latest reading of utcnow() a row is stamped with

(* Program constants *)

MAX_PROPOSED == 5    \* MeetingRequest.proposed_dates max_items
MIN_ITEMS == 1       \* min_items of proposed_dates and employee_ids

----------------------------------------------------------------------------
(* Accounts that exist when the meeting functions are called.  Managers 1  *)
(* and 2 are registered; employee 1 belongs to manager 1, employee 2 to    *)
(* manager 2.  Id 3 is an id with no Employee row.                         *)

None == 0            \* Python None / SQL NULL in an integer or datetime column
NoReason == "None"   \* Python None in the rejection_reason column

Managers == {1, 2}
Employees == {1, 2}
EmployeeIds == {1, 2, 3}
EmployeeManager == [e \in Employees |-> e]

\* distinct datetime values a request may carry
Dates == {1, 2}

\* class MeetingStatus(str, Enum)
MeetingStatus == {"pending", "accepted", "rejected", "cancelled"}

\* reason: Optional[str] = None : absent, empty, or some text
Reasons == {NoReason, "", "busy"}

Min(a, b) == IF a < b THEN a ELSE b

\* Lists of length lo..hi over S (hi capped by MaxLen)
Lists(S, lo, hi) == UNION {[1..n -> S] : n \in lo..Min(hi, MaxLen)}

Range(s) == {s[i] : i \in DOMAIN s}

----------------------------------------------------------------------------
(* Outcomes *)

Ok == "ok"
NotFound == "NotFound"                   \* UserNotFoundException, NotFoundException, HTTP 404
PermissionDenied == "PermissionDenied"   \* PermissionDeniedException, HTTP 403
BadRequest == "HTTP_400_BAD_REQUEST"     \* HTTPException(status_code=400)
TypeError == "TypeError"                 \* uncaught Python TypeError
NameError == "NameError"                 \* uncaught Python NameError

----------------------------------------------------------------------------
\* No account, location or document yet, and no request under way
OtherTablesEmpty ==
    /\ manager_rows = <<>>
    /\ employee_rows = <<>>
    /\ locations = <<>>
    /\ users = <<>>
    /\ employee_docs = <<>>
    /\ now = 0
    /\ in_flight = {}

Init ==
    /\ meetings = <<>>
    /\ proposed_dates = <<>>
    /\ last = [op |-> "init", result |-> Ok]
    /\ OtherTablesEmpty

Exists(mid) == mid \in DOMAIN meetings

\* db.query(ProposedDate).filter(ProposedDate.meeting_id == meeting_id).all()
ProposedOf(mid) ==
    {i \in DOMAIN proposed_dates : proposed_dates[i].meeting_id = mid}

\* Record of a call: which function, and how it ended
Called(op, result) ==
    /\ last' = [op |-> op, result |-> result]
    /\ UNCHANGED other_tables

----------------------------------------------------------------------------
(* create_meeting (manager_service.py) *)

\* db.query(Employee).filter(Employee.id.in_(ids), Employee.manager_id == manager_id).all()
EmployeesOfManagerIn(manager_id, employee_ids) ==
    {e \in Employees : e \in Range(employee_ids) /\ EmployeeManager[e] = manager_id}

\* Meeting(...) as create_meeting builds it: no manager_id is passed, so the
\* column keeps its NULL; rejection_reason and updated_at are NULL as well.
NewManagerMeeting(manager_id, date, employees) ==
    [status |-> "pending", rejection_reason |-> NoReason, date |-> date,
     created_by_id |-> manager_id, created_by_type |-> "manager",
     manager_id |-> None, updated_at |-> None, employees |-> employees]

CreateMeeting(manager_id, employee_ids, date) ==
    LET employees == EmployeesOfManagerIn(manager_id, employee_ids) IN
    IF Cardinality(employees) # Len(employee_ids)
    THEN /\ Called("create_meeting", BadRequest)
         /\ UNCHANGED <<meetings, proposed_dates>>
    ELSE /\ Len(meetings) < MaxMeetings
         /\ meetings' = Append(meetings,
                               NewManagerMeeting(manager_id, date, employees))
         /\ Called("create_meeting", Ok)
         /\ UNCHANGED proposed_dates

----------------------------------------------------------------------------
(* request_meeting (employee_service.py) *)

\* Meeting(...) as request_meeting builds it: no date is passed
NewEmployeeMeeting(employee_id) ==
    [status |-> "pending", rejection_reason |-> NoReason, date |-> None,
     created_by_id |-> employee_id, created_by_type |-> "employee",
     manager_id |-> EmployeeManager[employee_id], updated_at |-> None,
     employees |-> {}]

\* one ProposedDate(meeting_id, date, is_selected=False) per submitted date
NewProposedDates(meeting_id, dates) ==
    [i \in 1..Len(dates) |->
        [meeting_id |-> meeting_id, date |-> dates[i], is_selected |-> FALSE]]

\* The rows are committed (lines 255 and 267) before line 273 calls
\* send_meeting_request_notification, a name the module neither defines nor
\* imports: the call raises NameError after the commit.
RequestMeeting(employee_id, dates) ==
    IF employee_id \notin Employees
    THEN /\ Called("request_meeting", NotFound)
         /\ UNCHANGED <<meetings, proposed_dates>>
    ELSE /\ Len(meetings) < MaxMeetings
         /\ meetings' = Append(meetings, NewEmployeeMeeting(employee_id))
         /\ proposed_dates' =
                proposed_dates \o NewProposedDates(Len(meetings) + 1, dates)
         /\ Called("request_meeting", NameError)

----------------------------------------------------------------------------
(* update_meeting_status (manager_service.py) *)

\* Variant: the construction on line 269 goes through, whatever the statuses
MeetingStatusUpdateRequest_constructs(old_status, new_status) == Ok

\* Line 269, MeetingStatusUpdateRequest(meeting.status, status_data.status):
\* the class is a pydantic BaseModel (schemas/manager.py), whose __init__
\* takes keyword arguments only, so a call with two positional arguments
\* raises TypeError whatever the two statuses are.
MeetingStatusUpdateRequest_positional(old_status, new_status) == TypeError

\* Variant: update_meeting_status going from the lookup of the meeting
\* straight to the assignments of lines 272-274
UpdateMeetingStatusResult_anyCaller(manager_id, meeting_id, new_status) ==
    IF ~Exists(meeting_id) THEN NotFound ELSE Ok

\* Variant: update_meeting_status without the authorisation check of line 265
UpdateMeetingStatusResult_unchecked(manager_id, meeting_id, new_status) ==
    IF ~Exists(meeting_id) THEN NotFound
    ELSE MeetingStatusUpdateRequest_positional(meetings[meeting_id].status,
                                               new_status)

\* How update_meeting_status ends for these arguments
UpdateMeetingStatusResult(manager_id, meeting_id, new_status) ==
    IF ~Exists(meeting_id) THEN NotFound
    ELSE IF \/ meetings[meeting_id].created_by_id # manager_id
            \/ meetings[meeting_id].created_by_type # "manager"
         THEN PermissionDenied
    ELSE MeetingStatusUpdateRequest_positional(meetings[meeting_id].status,
                                               new_status)

\* datetime.utcnow() when a row is written: the clock only moves forward, so
\* the reading is later than the stamp the row carries (None, 0, is no stamp)
UtcNow(meeting) == meeting.updated_at + 1

\* Lines 272-274: the assignments to the row
StatusUpdated(meeting, new_status, reason) ==
    [meeting EXCEPT
        !.status = new_status,
        !.rejection_reason = IF new_status = "rejected" THEN reason ELSE NoReason,
        !.updated_at = UtcNow(meeting)]

UpdateMeetingStatus(manager_id, meeting_id, new_status, reason) ==
    LET result == UpdateMeetingStatusResult(manager_id, meeting_id, new_status) IN
    /\ Called("update_meeting_status", result)
    /\ IF result = Ok
       THEN /\ meetings[meeting_id].updated_at < MaxClock
            /\ meetings' = [meetings EXCEPT ![meeting_id] =
                               StatusUpdated(@, new_status, reason)]
            /\ UNCHANGED proposed_dates
       ELSE UNCHANGED <<meetings, proposed_dates>>

----------------------------------------------------------------------------
(* cancel_meeting (employee_service.py) *)

\* Variant: cancel_meeting without the status check of line 391
CancelMeetingResult_anyStatus(employee_id, meeting_id) ==
    IF ~Exists(meeting_id) THEN NotFound
    ELSE IF \/ meetings[meeting_id].created_by_id # employee_id
            \/ meetings[meeting_id].created_by_type # "employee"
         THEN PermissionDenied
    ELSE Ok

\* Variant: cancel_meeting comparing the creator's id but not its type
CancelMeetingResult_idOnly(employee_id, meeting_id) ==
    IF ~Exists(meeting_id) THEN NotFound
    ELSE IF meetings[meeting_id].created_by_id # employee_id
         THEN PermissionDenied
    ELSE IF meetings[meeting_id].status # "pending" THEN BadRequest
    ELSE Ok

\* How cancel_meeting ends for these arguments
CancelMeetingResult(employee_id, meeting_id) ==
    IF ~Exists(meeting_id) THEN NotFound
    ELSE IF \/ meetings[meeting_id].created_by_id # employee_id
            \/ meetings[meeting_id].created_by_type # "employee"
         THEN PermissionDenied
    ELSE IF meetings[meeting_id].status # "pending" THEN BadRequest
    ELSE Ok

\* Lines 398-399
Cancelled(meeting) ==
    [meeting EXCEPT !.status = "cancelled", !.updated_at = UtcNow(meeting)]

CancelMeeting(employee_id, meeting_id) ==
    LET result == CancelMeetingResult(employee_id, meeting_id) IN
    /\ Called("cancel_meeting", result)
    /\ IF result = Ok
       THEN /\ meetings[meeting_id].updated_at < MaxClock
            /\ meetings' = [meetings EXCEPT ![meeting_id] = Cancelled(@)]
            /\ UNCHANGED proposed_dates
       ELSE UNCHANGED <<meetings, proposed_dates>>

----------------------------------------------------------------------------
(* select_meeting_date (manager_service.py) *)

\* any(date.date == selected_date for date in proposed_dates)
IsProposed(meeting_id, selected_date) ==
    \E i \in ProposedOf(meeting_id) : proposed_dates[i].date = selected_date

\* Variant: select_meeting_date looking the date up before the manager
SelectMeetingDateResult_dateFirst(manager_id, meeting_id, selected_date) ==
    IF ~Exists(meeting_id) THEN NotFound
    ELSE IF ~IsProposed(meeting_id, selected_date) THEN BadRequest
    ELSE IF meetings[meeting_id].manager_id # manager_id THEN PermissionDenied
    ELSE Ok

\* Variant: select_meeting_date without the membership check of line 383
SelectMeetingDateResult_anyDate(manager_id, meeting_id, selected_date) ==
    IF ~Exists(meeting_id) THEN NotFound
    ELSE IF meetings[meeting_id].manager_id # manager_id THEN PermissionDenied
    ELSE Ok

\* How select_meeting_date ends for these arguments
SelectMeetingDateResult(manager_id, meeting_id, selected_date) ==
    IF ~Exists(meeting_id) THEN NotFound
    ELSE IF meetings[meeting_id].manager_id # manager_id THEN PermissionDenied
    ELSE IF ~IsProposed(meeting_id, selected_date) THEN BadRequest
    ELSE Ok

\* Lines 387-388: every row of the meeting gets is_selected = (its date == selected_date)
Selected(meeting_id, selected_date) ==
    [i \in DOMAIN proposed_dates |->
        IF proposed_dates[i].meeting_id = meeting_id
        THEN [proposed_dates[i] EXCEPT
                !.is_selected = (proposed_dates[i].date = selected_date)]
        ELSE proposed_dates[i]]

SelectMeetingDate(manager_id, meeting_id, selected_date) ==
    LET result == SelectMeetingDateResult(manager_id, meeting_id, selected_date) IN
    /\ Called("select_meeting_date", result)
    /\ IF result = Ok
       THEN /\ meetings' = [meetings EXCEPT ![meeting_id].date = selected_date]
            /\ proposed_dates' = Selected(meeting_id, selected_date)
          ELSE UNCHANGED <<meetings, proposed_dates>>

----------------------------------------------------------------------------
(* get_meetings (manager_service.py) *)

\* Line 406, db.query(Meeting).filter(Meeting.manager_id == manager_id), with
\* no status and no employee_id given: the ids of the meetings returned
get_meetings(manager_id) ==
    {mid \in DOMAIN meetings : meetings[mid].manager_id = manager_id}

----------------------------------------------------------------------------
(* Requests *)

\* meeting_id of a request: an id that has a row, or one that has none yet
MeetingIds == 1..MaxMeetings

\* MeetingCreateRequest.employee_ids: at least one id; a manager's own
\* employee, another manager's, and an id repeated
EmployeeIdLists == Lists(Employees, MIN_ITEMS, Cardinality(Employees))

\* MeetingRequest.proposed_dates: one to five datetimes, repeats allowed
ProposedDateLists == Lists(Dates, MIN_ITEMS, MAX_PROPOSED)

\* MeetingStatusUpdateRequest bodies: any status; a reason, empty or not, or
\* none with rejected, and no reason with the other statuses
StatusUpdateRequests ==
    {[status |-> st, reason |-> r] : st \in {"rejected"}, r \in Reasons}
        \cup {[status |-> st, reason |-> NoReason] : st \in MeetingStatus}

Next ==
    \/ \E m \in Managers, ids \in EmployeeIdLists, d \in Dates :
          CreateMeeting(m, ids, d)
    \/ \E e \in EmployeeIds, ds \in ProposedDateLists :
          RequestMeeting(e, ds)
    \/ \E m \in Managers, mid \in MeetingIds, req \in StatusUpdateRequests :
          UpdateMeetingStatus(m, mid, req.status, req.reason)
    \/ \E e \in Employees, mid \in MeetingIds :
          CancelMeeting(e, mid)
    \/ \E m \in Managers, mid \in MeetingIds, d \in Dates :
          SelectMeetingDate(m, mid, d)

Spec == Init /\ [][Next]_vars

----------------------------------------------------------------------------
(* create_meeting and request_meeting when the database refuses a commit.  *)
(* Each function commits twice: the Meeting row first (manager_service.py  *)
(* line 224, employee_service.py line 255), then the rows that hang on it  *)
(* (line 231, line 267).  db.commit() raises when the connection is lost   *)
(* or a constraint fails; neither function catches it, and the session is  *)
(* closed with whatever was not yet committed thrown away.                 *)

DatabaseError == "SQLAlchemyError"   \* uncaught exception of db.commit()

\* The commits of the two functions, in order
Commits == {1, 2}

\* create_meeting with its commit number failing_commit raising
CreateMeetingFault(manager_id, employee_ids, date, failing_commit) ==
    LET employees == EmployeesOfManagerIn(manager_id, employee_ids) IN
    /\ Cardinality(employees) = Len(employee_ids)
    /\ Len(meetings) < MaxMeetings
    /\ meetings' = IF failing_commit = 1
                   THEN meetings
                   ELSE Append(meetings,
                               NewManagerMeeting(manager_id, date, {}))
    /\ Called("create_meeting", DatabaseError)
    /\ UNCHANGED proposed_dates

\* request_meeting with its commit number failing_commit raising
RequestMeetingFault(employee_id, dates, failing_commit) ==
    /\ employee_id \in Employees
    /\ Len(meetings) < MaxMeetings
    /\ meetings' = IF failing_commit = 1
                   THEN meetings
                   ELSE Append(meetings, NewEmployeeMeeting(employee_id))
    /\ Called("request_meeting", DatabaseError)
    /\ UNCHANGED proposed_dates

NextFault ==
    \/ Next
    \/ \E m \in Managers, ids \in EmployeeIdLists, d \in Dates, c \in Commits :
          CreateMeetingFault(m, ids, d, c)
    \/ \E e \in Employees, ds \in ProposedDateLists, c \in Commits :
          RequestMeetingFault(e, ds, c)

SpecFault == Init /\ [][NextFault]_vars

----------------------------------------------------------------------------
(* get_manager_availability (employee_service.py)                          *)
(*                                                                         *)
(* A datetime is a number of minutes counted from 00:00 of a Monday; the   *)
(* function never looks below the minute except to set second=59 on the    *)
(* end of the range, which is compared with midnights only.                *)

working_start_hour == 9
working_end_hour == 17
SLOT_MINUTES == 30

timedelta_minutes(n) == n
timedelta_days(n) == n * 24 * 60

\* datetime.replace(hour=0, minute=0, second=0, microsecond=0)
Midnight(t) == t - (t % timedelta_days(1))

\* datetime.replace(hour=h, minute=m) on a datetime
replace(t, h, m) == t - (t % timedelta_days(1)) + h * 60 + m

\* datetime.weekday(): Monday is 0, Sunday is 6
weekday(t) == (t \div timedelta_days(1)) % 7

\* Variant: the status filter of line 69 left out
BlockingStatuses_unfiltered == {"approved", "pending", "rejected", "cancelled"}

\* Meeting.status.in_([MeetingStatus.APPROVED, MeetingStatus.PENDING])
BlockingStatuses == {"approved", "pending"}

\* Lines 65-70: the query.  A NULL date compares as unknown and drops the
\* row; start_date and end_date are the datetimes the caller passed.
MeetingsInRange(manager_id, start_date, end_date) ==
    LET matches(meeting) ==
            /\ meeting.manager_id = manager_id
            /\ meeting.date # None
            /\ meeting.date >= start_date
            /\ meeting.date <= end_date
            /\ meeting.status \in BlockingStatuses
    IN  SelectSeq(meetings, matches)

\* Lines 73-81: one busy slot per meeting of the query
BusySlots(found) ==
    [i \in DOMAIN found |->
        [start |-> found[i].date,
         end |-> found[i].date + timedelta_minutes(found[i].duration),
         title |-> found[i].title]]

\* Variant: the overlap test of line 110 with both comparisons inclusive
SlotOverlaps_inclusive(slot_start, slot_end, busy) ==
    slot_start <= busy.end /\ slot_end >= busy.start

\* Line 110
SlotOverlaps(slot_start, slot_end, busy) ==
    slot_start < busy.end /\ slot_end > busy.start

\* Lines 108-112
is_available(slot_start, slot_end, busy_slots) ==
    \A i \in DOMAIN busy_slots : ~SlotOverlaps(slot_start, slot_end, busy_slots[i])

\* Variant: the loop condition of line 104 letting a slot start at day_end
SlotLoopContinues_inclusive(slot_start, day_end) == slot_start <= day_end

\* Line 104
SlotLoopContinues(slot_start, day_end) == slot_start < day_end

RECURSIVE SlotLoop(_, _, _)
\* Lines 104-120: the slots of one day that go to available_slots, in the
\* order the loop appends them
SlotLoop(slot_start, day_end, busy_slots) ==
    IF SlotLoopContinues(slot_start, day_end)
    THEN LET slot_end == slot_start + timedelta_minutes(SLOT_MINUTES) IN
         (IF is_available(slot_start, slot_end, busy_slots)
          THEN <<[start |-> slot_start, end |-> slot_end]>>
          ELSE <<>>)
             \o SlotLoop(slot_end, day_end, busy_slots)
    ELSE <<>>

\* Variant: the weekend test of line 94 skipping Sunday only
IsWeekend_sundayOnly(current_date) == weekday(current_date) > 5

\* Line 94
IsWeekend(current_date) == weekday(current_date) >= 5

RECURSIVE DayLoop(_, _, _)
\* Lines 92-123: the days of the range, each adding its slots to
\* available_slots before current_date moves to the next day
DayLoop(current_date, end_date, busy_slots) ==
    IF current_date <= end_date
    THEN (IF IsWeekend(current_date)
          THEN <<>>
          ELSE SlotLoop(replace(current_date, working_start_hour, 0),
                        replace(current_date, working_end_hour, 0),
                        busy_slots))
             \o DayLoop(current_date + timedelta_days(1), end_date, busy_slots)
    ELSE <<>>

\* The dictionary the function returns
get_manager_availability(manager_id, start_date, end_date) ==
    LET busy_slots == BusySlots(MeetingsInRange(manager_id, start_date, end_date))
    IN  [manager_id |-> manager_id,
         available_slots |-> DayLoop(Midnight(start_date),
                                     replace(end_date, 23, 59),
                                     busy_slots),
         busy_slots |-> busy_slots]

\* Variant: the loop over the meetings moving each row's date to its end
GetManagerAvailability_writesDate(manager_id, start_date, end_date) ==
    /\ last' = [op |-> "get_manager_availability", result |-> Ok,
                start_date |-> start_date, end_date |-> end_date,
                response |-> get_manager_availability(manager_id, start_date,
                                                      end_date)]
    /\ meetings' = [i \in DOMAIN meetings |->
                      IF /\ meetings[i].manager_id = manager_id
                         /\ meetings[i].status \in BlockingStatuses
                      THEN [meetings[i] EXCEPT !.date = @ + meetings[i].duration]
                      ELSE meetings[i]]
    /\ UNCHANGED proposed_dates
    /\ UNCHANGED other_tables

\* The call: it reads the Meeting table and writes nothing
GetManagerAvailability(manager_id, start_date, end_date) ==
    /\ last' = [op |-> "get_manager_availability", result |-> Ok,
                start_date |-> start_date, end_date |-> end_date,
                response |-> get_manager_availability(manager_id, start_date,
                                                      end_date)]
    /\ UNCHANGED <<meetings, proposed_dates>>
    /\ UNCHANGED other_tables

(* Meeting tables the availability is asked of.  A row with a manager_id   *)
(* and a date is a meeting an employee requested and whose date the        *)
(* manager selected; it carries the duration and title of the request.     *)

\* A datetime of the week: day 0 is Monday
At(day, hour, minute) == timedelta_days(7 + day) + hour * 60 + minute

Tuesday == 1
Saturday == 5

\* Meeting.date values: Tuesday 10:00, Tuesday 16:45, Saturday 10:00
MeetingDates == {At(Tuesday, 10, 0), At(Tuesday, 16, 45), At(Saturday, 10, 0)}

\* MeetingBase.duration, minutes
Durations == {30, 60}

\* start_date and end_date of a request
RangeDates ==
    {At(Tuesday, 0, 0), At(Tuesday, 10, 30), At(Tuesday, 23, 59),
     At(Saturday, 12, 0)}

\* The row of a requested meeting after select_meeting_date set its date
ScheduledMeeting(employee_id, date, duration, title) ==
    LET requested == NewEmployeeMeeting(employee_id) IN
    [f \in DOMAIN requested \cup {"duration", "title"} |->
        CASE f = "date" -> date
          [] f = "duration" -> duration
          [] f = "title" -> title
          [] OTHER -> requested[f]]

ScheduledTables ==
    UNION {[1..n -> Employees \X MeetingDates \X Durations] : n \in 0..MaxMeetings}

InitAvail ==
    \E t \in ScheduledTables :
        /\ meetings = [i \in DOMAIN t |->
                          ScheduledMeeting(t[i][1], t[i][2], t[i][3], i)]
        /\ proposed_dates = [i \in DOMAIN t |->
                               [meeting_id |-> i, date |-> t[i][2],
                                is_selected |-> TRUE]]
        /\ last = [op |-> "init", result |-> Ok]
        /\ OtherTablesEmpty

NextAvail ==
    \/ \E m \in Managers, start_date \in RangeDates, end_date \in RangeDates :
          GetManagerAvailability(m, start_date, end_date)
    \/ \E e \in Employees, mid \in MeetingIds :
          CancelMeeting(e, mid)

SpecAvail == InitAvail /\ [][NextAvail]_vars

----------------------------------------------------------------------------
(* Accounts: Manager and Employee rows (auth_service.py,                   *)
(* manager_service.py add_employee)                                        *)

Emails == {"ann@x.io", "bob@x.io"}

\* generate_otp(): six random digits
Otps == {"111111", "222222"}

\* secrets.token_urlsafe(32)
Tokens == {"tok1", "tok2"}

Passwords == {"pw1", "pw2"}

NoOtp == "None"         \* Python None in Manager.otp
NoToken == "None"       \* Python None in Employee.verification_token
NoPassword == "None"    \* Python None in Employee.password

\* pwd_context.hash(password)
hash_password(password) == <<"bcrypt", password>>

\* pwd_context.verify(plain_password, hashed_password): passlib answers
\* False for a hash that is None
verify_password(plain_password, hashed_password) ==
    hashed_password # NoPassword /\ hashed_password = hash_password(plain_password)

IntegrityError == "IntegrityError"   \* uncaught sqlalchemy.exc.IntegrityError

\* db.query(Table).filter(Table.email == email).first() finds a row
EmailRegistered(rows, email) == \E i \in DOMAIN rows : rows[i].email = email

\* The id of the row with this email (first())
RowOfEmail(rows, email) == CHOOSE i \in DOMAIN rows : rows[i].email = email

\* The unique constraint on the email column refuses the insert at commit
UniqueViolation(rows, email) == EmailRegistered(rows, email)

\* Manager(...) of register_manager, lines 66-78
NewManager(email, password, otp) ==
    [email |-> email, password |-> hash_password(password), otp |-> otp,
     otp_created_at |-> now, is_verified |-> FALSE, is_approved |-> FALSE]

\* Employee(...) of create_employee, lines 222-231: no password yet
NewEmployee(email, manager_id, verification_token) ==
    [email |-> email, password |-> NoPassword, manager_id |-> manager_id,
     verification_token |-> verification_token,
     verification_token_created_at |-> now, is_verified |-> FALSE]

\* Employee(...) of add_employee, lines 301-307: name, email, role,
\* department and manager_id only
AddedEmployee(email, manager_id) ==
    [email |-> email, password |-> NoPassword, manager_id |-> manager_id,
     verification_token |-> NoToken,
     verification_token_created_at |-> None, is_verified |-> FALSE]

----------------------------------------------------------------------------
(* register_manager, create_employee and add_employee, request by request: *)
(* each one queries for the email first and inserts afterwards, and other  *)
(* requests may run between the two.                                       *)

SignupFunctions == {"register_manager", "create_employee", "add_employee"}

\* Requests that may be under way together
RequestIds == {1, 2}

\* The table a function queries and inserts into
SignupTable(op) == IF op = "register_manager" THEN manager_rows ELSE employee_rows

\* The row the function inserts
SignupRow(op, email) ==
    CASE op = "register_manager" -> NewManager(email, "pw1", "111111")
      [] op = "create_employee" -> NewEmployee(email, 1, "tok1")
      [] op = "add_employee" -> AddedEmployee(email, 1)

\* How the function ends when its commit raises IntegrityError:
\* register_manager (lines 89-94) and create_employee (lines 251-256) catch
\* it, roll back and raise HTTP 400; add_employee has no handler.
IntegrityErrorResult(op) ==
    IF op = "add_employee" THEN IntegrityError ELSE BadRequest

\* The existence check: a request that finds the email stops with HTTP 400,
\* one that does not goes on to build its row
SignupCheck(id, op, email) ==
    /\ \A r \in in_flight : r.id # id
    /\ IF EmailRegistered(SignupTable(op), email)
       THEN /\ last' = [op |-> op, result |-> BadRequest]
            /\ UNCHANGED in_flight
       ELSE /\ in_flight' = in_flight \cup {[id |-> id, op |-> op, email |-> email]}
            /\ UNCHANGED last
    /\ UNCHANGED <<manager_rows, employee_rows>>
    /\ UNCHANGED <<meeting_tables, locations, users, employee_docs, now>>

\* db.add(row); db.commit() of a request that passed the check
SignupCommit(r) ==
    /\ r \in in_flight
    /\ in_flight' = in_flight \ {r}
    /\ IF UniqueViolation(SignupTable(r.op), r.email)
       THEN /\ last' = [op |-> r.op, result |-> IntegrityErrorResult(r.op)]
            /\ UNCHANGED <<manager_rows, employee_rows>>
       ELSE /\ last' = [op |-> r.op, result |-> Ok]
            /\ IF r.op = "register_manager"
               THEN /\ manager_rows' = Append(manager_rows, SignupRow(r.op, r.email))
                    /\ UNCHANGED employee_rows
               ELSE /\ employee_rows' = Append(employee_rows, SignupRow(r.op, r.email))
                    /\ UNCHANGED manager_rows
    /\ UNCHANGED <<meeting_tables, locations, users, employee_docs, now>>

NextSignup ==
    \/ \E id \in RequestIds, op \in SignupFunctions, email \in Emails :
          SignupCheck(id, op, email)
    \/ \E r \in in_flight : SignupCommit(r)

SpecSignup == Init /\ [][NextSignup]_vars

----------------------------------------------------------------------------
(* Signup, verification and login (auth_service.py), approval              *)
(* (admin_service.py).  One action per function; a token the function      *)
(* returns is recorded in last with the claims it was made from.           *)

OTP_VALID_MINUTES == 10
TOKEN_VALID_HOURS == 24

CredentialsException == "CredentialsException"
OTPVerificationException == "OTPVerificationException"
VerificationTokenException == "VerificationTokenException"

\* What the account functions neither read nor write
not_accounts == <<meetings, proposed_dates, locations, users, employee_docs,
                  in_flight>>

\* The email accounts are signed up with; requests name this one or another
SignupEmails == {"ann@x.io"}

\* LoginRequest.user_type
UserTypes == {"manager", "employee", "admin"}

\* Readings of datetime.utcnow(), minutes: the start, ten and eleven minutes
\* later, a day and a day and a minute later
ClockReadings == {0, 10, 11, 24 * 60, 24 * 60 + 1}

\* create_access_token(data): the claims the token is signed over
create_access_token(sub, type) == [sub |-> sub, type |-> type]

\* The call ended with a value or an exception, and no token
Returned(op, result) == last' = [op |-> op, result |-> result]

\* The call returned a token
Issued(op, token) == last' = [op |-> op, result |-> Ok, token |-> token]

\* Time passes between two requests
AdvanceClock ==
    /\ \E t \in ClockReadings : t > now /\ now' = t
    /\ UNCHANGED <<last, manager_rows, employee_rows, not_accounts>>

RegisterManager(email, password, otp) ==
    /\ IF EmailRegistered(manager_rows, email)
       THEN /\ Returned("register_manager", BadRequest)
            /\ UNCHANGED manager_rows
       ELSE /\ manager_rows' = Append(manager_rows, NewManager(email, password, otp))
            /\ Returned("register_manager", Ok)
    /\ UNCHANGED <<employee_rows, now, not_accounts>>

\* Variant: verify_manager_otp leaving otp and otp_created_at on the row
ManagerVerified_keepsOtp(manager) == [manager EXCEPT !.is_verified = TRUE]

\* Lines 121-123
ManagerVerified(manager) ==
    [manager EXCEPT !.is_verified = TRUE, !.otp = NoOtp, !.otp_created_at = None]

\* Lines 116-117
OtpExpired(manager) ==
    now > manager.otp_created_at + timedelta_minutes(OTP_VALID_MINUTES)

VerifyManagerOtp(email, otp) ==
    /\ IF ~EmailRegistered(manager_rows, email)
       THEN /\ Returned("verify_manager_otp", NotFound)
            /\ UNCHANGED manager_rows
       ELSE LET id == RowOfEmail(manager_rows, email) IN
            IF manager_rows[id].otp # otp \/ OtpExpired(manager_rows[id])
            THEN /\ Returned("verify_manager_otp", OTPVerificationException)
                 /\ UNCHANGED manager_rows
            ELSE /\ manager_rows' = [manager_rows EXCEPT ![id] = ManagerVerified(@)]
                 /\ Issued("verify_manager_otp", create_access_token(id, "manager"))
    /\ UNCHANGED <<employee_rows, now, not_accounts>>

\* Lines 145-152: the table of the user type; there is no Admin row
UsersOfType(user_type) ==
    CASE user_type = "manager" -> manager_rows
      [] user_type = "employee" -> employee_rows
      [] OTHER -> <<>>

\* Lines 157-165: the checks that end in CredentialsException
LoginRefused(user_type, user, password) ==
    \/ ~verify_password(password, user.password)
    \/ ~user.is_verified
    \/ user_type = "manager" /\ ~user.is_approved

LoginUser(user_type, email, password) ==
    LET rows == UsersOfType(user_type) IN
    /\ IF ~EmailRegistered(rows, email)
       THEN Returned("login_user", CredentialsException)
       ELSE LET id == RowOfEmail(rows, email) IN
            IF LoginRefused(user_type, rows[id], password)
            THEN Returned("login_user", CredentialsException)
            ELSE Issued("login_user", create_access_token(id, user_type))
    /\ UNCHANGED <<manager_rows, employee_rows, now, not_accounts>>

\* secrets.token_urlsafe(32) does not repeat a token a row still carries
TokenInUse(verification_token) ==
    \E i \in DOMAIN employee_rows :
        employee_rows[i].verification_token = verification_token

CreateEmployee(manager_id, email, verification_token) ==
    /\ IF EmailRegistered(employee_rows, email)
       THEN /\ Returned("create_employee", BadRequest)
            /\ UNCHANGED employee_rows
       ELSE /\ ~TokenInUse(verification_token)
            /\ employee_rows' = Append(employee_rows,
                                       NewEmployee(email, manager_id,
                                                   verification_token))
            /\ Returned("create_employee", Ok)
    /\ UNCHANGED <<manager_rows, now, not_accounts>>

\* Variant: verify_employee leaving the token on the row
EmployeeVerified_keepsToken(employee, password) ==
    [employee EXCEPT !.password = hash_password(password), !.is_verified = TRUE]

\* Lines 279-283
EmployeeVerified(employee, password) ==
    [employee EXCEPT !.password = hash_password(password),
                     !.is_verified = TRUE,
                     !.verification_token = NoToken,
                     !.verification_token_created_at = None]

\* Lines 274-275
TokenExpired(employee) ==
    now > employee.verification_token_created_at
              + timedelta_minutes(TOKEN_VALID_HOURS * 60)

VerifyEmployee(verification_token, password) ==
    /\ IF ~TokenInUse(verification_token)
       THEN /\ Returned("verify_employee", VerificationTokenException)
            /\ UNCHANGED employee_rows
       ELSE LET id == CHOOSE i \in DOMAIN employee_rows :
                          employee_rows[i].verification_token = verification_token
            IN  IF TokenExpired(employee_rows[id])
                THEN /\ Returned("verify_employee", VerificationTokenException)
                     /\ UNCHANGED employee_rows
                ELSE /\ employee_rows' = [employee_rows EXCEPT ![id] =
                                             EmployeeVerified(@, password)]
                     /\ Issued("verify_employee", create_access_token(id, "employee"))
    /\ UNCHANGED <<manager_rows, now, not_accounts>>

\* update_manager_status (admin_service.py): the admin approves or rejects
UpdateManagerStatus(manager_id, is_approved) ==
    /\ IF manager_id \notin DOMAIN manager_rows
       THEN /\ Returned("update_manager_status", NotFound)
            /\ UNCHANGED manager_rows
       ELSE /\ manager_rows' = [manager_rows EXCEPT
                                   ![manager_id].is_approved = is_approved]
            /\ Returned("update_manager_status", Ok)
    /\ UNCHANGED <<employee_rows, now, not_accounts>>

NextAuth ==
    \/ AdvanceClock
    \/ \E email \in SignupEmails, password \in Passwords, otp \in Otps :
          RegisterManager(email, password, otp)
    \/ \E email \in Emails, otp \in Otps :
          VerifyManagerOtp(email, otp)
    \/ \E user_type \in UserTypes, email \in Emails, password \in Passwords :
          LoginUser(user_type, email, password)
    \/ \E m \in {1}, email \in SignupEmails, verification_token \in Tokens :
          CreateEmployee(m, email, verification_token)
    \/ \E verification_token \in Tokens, password \in Passwords :
          VerifyEmployee(verification_token, password)
    \/ \E m \in Managers, is_approved \in BOOLEAN :
          UpdateManagerStatus(m, is_approved)

SpecAuth == Init /\ [][NextAuth]_vars

----------------------------------------------------------------------------
(* Signup and login by emailed code (api/v1/endpoints/auth.py), on the     *)
(* users collection.  One action per endpoint.                             *)

NoCode == "None"     \* Python None in verification_code

\* What the endpoints of auth.py neither read nor write
not_users == <<meetings, proposed_dates, manager_rows, employee_rows,
               locations, employee_docs, now, in_flight>>

\* user_dict of manager_signup (lines 46-49) and of create_employee (86-89)
NewUser(email, otp, is_manager) ==
    [email |-> email, verification_code |-> otp, is_verified |-> FALSE,
     is_manager |-> is_manager]

\* manager_signup
ManagerSignup(email, otp) ==
    /\ IF EmailRegistered(users, email)
       THEN /\ Returned("manager_signup", BadRequest)
            /\ UNCHANGED users
       ELSE /\ users' = Append(users, NewUser(email, otp, TRUE))
            /\ Returned("manager_signup", Ok)
    /\ UNCHANGED not_users

\* create_employee of auth.py, called by a manager
EmployeeCreate(email, otp) ==
    /\ IF EmailRegistered(users, email)
       THEN /\ Returned("employee_create", BadRequest)
            /\ UNCHANGED users
       ELSE /\ users' = Append(users, NewUser(email, otp, FALSE))
            /\ Returned("employee_create", Ok)
    /\ UNCHANGED not_users

\* Variant: verify_email leaving the code in the document
EmailVerified_keepsCode(user) == [user EXCEPT !.is_verified = TRUE]

\* Lines 118-126
EmailVerified(user) ==
    [user EXCEPT !.is_verified = TRUE, !.verification_code = NoCode]

\* verify_email
VerifyEmail(email, otp) ==
    /\ IF ~EmailRegistered(users, email)
       THEN /\ Returned("verify_email", NotFound)
            /\ UNCHANGED users
       ELSE LET id == RowOfEmail(users, email) IN
            IF users[id].verification_code # otp
            THEN /\ Returned("verify_email", BadRequest)
                 /\ UNCHANGED users
            ELSE /\ users' = [users EXCEPT ![id] = EmailVerified(@)]
                 /\ Returned("verify_email", Ok)
    /\ UNCHANGED not_users

\* login: a new code is sent and stored
Login(email, otp) ==
    /\ IF ~EmailRegistered(users, email)
       THEN /\ Returned("login", NotFound)
            /\ UNCHANGED users
       ELSE LET id == RowOfEmail(users, email) IN
            IF ~users[id].is_verified
            THEN /\ Returned("login", PermissionDenied)
                 /\ UNCHANGED users
            ELSE /\ users' = [users EXCEPT ![id].verification_code = otp]
                 /\ Returned("login", Ok)
    /\ UNCHANGED not_users

\* verify_login
VerifyLogin(email, otp) ==
    /\ IF ~EmailRegistered(users, email)
       THEN /\ Returned("verify_login", NotFound)
            /\ UNCHANGED users
       ELSE LET id == RowOfEmail(users, email) IN
            IF ~users[id].is_verified
            THEN /\ Returned("verify_login", PermissionDenied)
                 /\ UNCHANGED users
            ELSE IF users[id].verification_code # otp
            THEN /\ Returned("verify_login", BadRequest)
                 /\ UNCHANGED users
            ELSE /\ users' = [users EXCEPT ![id].verification_code = NoCode]
                 /\ Issued("verify_login", create_access_token(email, "bearer"))
    /\ UNCHANGED not_users

NextLogin ==
    \/ \E email \in Emails, otp \in Otps : ManagerSignup(email, otp)
    \/ \E email \in Emails, otp \in Otps : EmployeeCreate(email, otp)
    \/ \E email \in Emails, otp \in Otps : VerifyEmail(email, otp)
    \/ \E email \in Emails, otp \in Otps : Login(email, otp)
    \/ \E email \in Emails, otp \in Otps : VerifyLogin(email, otp)

SpecLogin == Init /\ [][NextLogin]_vars

----------------------------------------------------------------------------
(* select_meeting_date called by two requests at once.  Each request has   *)
(* its own Session: it loads the Meeting and its ProposedDate rows, checks *)
(* them and assigns the attributes in memory (lines 375-388), and its      *)
(* db.commit() (line 390) writes them.  The flush of a Session issues an   *)
(* UPDATE for the attributes whose value differs from the one it loaded,   *)
(* and none for an attribute assigned the value it already had.            *)

\* What select_meeting_date neither reads nor writes
not_selection == <<manager_rows, employee_rows, locations, users,
                   employee_docs, now>>

\* is_selected of the rows of the meeting, as the query of line 382 loads them
LoadedSelection(meeting_id) ==
    [i \in ProposedOf(meeting_id) |-> proposed_dates[i].is_selected]

\* Lines 375-388: the queries and the checks; a request that passes them
\* holds the rows it loaded until it commits
SelectMeetingDateLoad(id, manager_id, meeting_id, selected_date) ==
    LET result == SelectMeetingDateResult(manager_id, meeting_id, selected_date) IN
    /\ \A r \in in_flight : r.id # id
    /\ IF result # Ok
       THEN /\ last' = [op |-> "select_meeting_date", result |-> result]
            /\ UNCHANGED in_flight
       ELSE /\ in_flight' = in_flight \cup
                   {[id |-> id, meeting_id |-> meeting_id,
                     selected_date |-> selected_date,
                     loaded |-> LoadedSelection(meeting_id)]}
            /\ UNCHANGED last
    /\ UNCHANGED <<meetings, proposed_dates>>
    /\ UNCHANGED not_selection

\* The UPDATEs of the flush: a row is written when the value assigned on
\* line 388 differs from the loaded one, and keeps what the table holds
\* otherwise
Flushed(r) ==
    [i \in DOMAIN proposed_dates |->
        IF i \in DOMAIN r.loaded
              /\ (proposed_dates[i].date = r.selected_date) # r.loaded[i]
        THEN [proposed_dates[i] EXCEPT
                !.is_selected = (proposed_dates[i].date = r.selected_date)]
        ELSE proposed_dates[i]]

\* Line 390, db.commit()
SelectMeetingDateCommit(r) ==
    /\ r \in in_flight
    /\ in_flight' = in_flight \ {r}
    /\ meetings' = [meetings EXCEPT ![r.meeting_id].date = r.selected_date]
    /\ proposed_dates' = Flushed(r)
    /\ last' = [op |-> "select_meeting_date", result |-> Ok]
    /\ UNCHANGED not_selection

NextSelectRace ==
    \/ \E e \in EmployeeIds, ds \in ProposedDateLists :
          RequestMeeting(e, ds)
    \/ \E id \in RequestIds, m \in Managers, mid \in MeetingIds, d \in Dates :
          SelectMeetingDateLoad(id, m, mid, d)
    \/ \E r \in in_flight : SelectMeetingDateCommit(r)

SpecSelectRace == Init /\ [][NextSelectRace]_vars

----------------------------------------------------------------------------
(* Location reports: post_location (employee_service.py) and the           *)
(* POST /employees/location endpoint (api/v1/endpoints/employees.py)       *)

MaxReports == 3      \* Location rows ever inserted

\* latitude and longitude of a report
Positions == {<<10, 20>>, <<30, 40>>}

NoPosition == <<>>   \* a document that has no latitude and longitude yet

\* The users the endpoint is called by: employees, with or without a
\* document, and a manager
CurrentUsers ==
    {[id |-> e, is_manager |-> FALSE] : e \in EmployeeIds}
        \cup {[id |-> m, is_manager |-> TRUE] : m \in {1}}

\* Location(...) of lines 206-212
NewLocation(employee_id, position) ==
    [employee_id |-> employee_id, latitude |-> position[1],
     longitude |-> position[2], timestamp |-> now]

PostLocation(employee_id, position) ==
    /\ IF employee_id \notin Employees
       THEN /\ last' = [op |-> "post_location", result |-> NotFound]
            /\ UNCHANGED locations
       ELSE /\ Len(locations) < MaxReports
            /\ locations' = Append(locations, NewLocation(employee_id, position))
            /\ last' = [op |-> "post_location", result |-> Ok]
    /\ UNCHANGED <<meeting_tables, manager_rows, employee_rows, users,
                   employee_docs, now, in_flight>>

\* update_location: update_one(..., {"$set": {latitude, longitude,
\* last_location_update}}) on the caller's document; modified_count is 0
\* when there is no such document
UpdateLocation(current_user, position) ==
    /\ IF current_user.is_manager
       THEN /\ last' = [op |-> "update_location", result |-> PermissionDenied]
            /\ UNCHANGED employee_docs
       ELSE IF current_user.id \notin DOMAIN employee_docs
       THEN /\ last' = [op |-> "update_location", result |-> NotFound]
            /\ UNCHANGED employee_docs
       ELSE /\ employee_docs' =
                  [employee_docs EXCEPT ![current_user.id] =
                      [position |-> position, last_location_update |-> now]]
            /\ last' = [op |-> "update_location", result |-> Ok]
    /\ UNCHANGED <<meeting_tables, manager_rows, employee_rows, users,
                   locations, now, in_flight>>

\* The employees have their documents and have reported nothing yet
InitLocation ==
    /\ meetings = <<>>
    /\ proposed_dates = <<>>
    /\ last = [op |-> "init", result |-> Ok]
    /\ manager_rows = <<>>
    /\ employee_rows = <<>>
    /\ locations = <<>>
    /\ users = <<>>
    /\ employee_docs = [e \in Employees |->
                          [position |-> NoPosition, last_location_update |-> None]]
    /\ now = 0
    /\ in_flight = {}

NextLocation ==
    \/ \E e \in EmployeeIds, position \in Positions :
          PostLocation(e, position)
    \/ \E u \in CurrentUsers, position \in Positions :
          UpdateLocation(u, position)

SpecLocation == InitLocation /\ [][NextLocation]_vars

----------------------------------------------------------------------------
(* Properties *)

TerminalStatuses == {"accepted", "rejected", "cancelled"}

\* The caller (id, "manager" or "employee") is the creator of meeting mid
IsCreator(id, type, mid) ==
    /\ meetings[mid].created_by_id = id
    /\ meetings[mid].created_by_type = type

\* The ProposedDate rows of meeting mid that are selected
SelectedRows(rows, mid) ==
    {i \in DOMAIN rows : rows[i].meeting_id = mid /\ rows[i].is_selected}

\* C1: once a meeting's status is accepted, rejected or cancelled, no step
\* of any function changes that meeting's status.
C1_TerminalStatusFinal ==
    [][\A mid \in DOMAIN meetings :
          meetings[mid].status \in TerminalStatuses
            => meetings'[mid].status = meetings[mid].status]_vars

\* A cancelled meeting on which select_meeting_date has since succeeded
C1_Witness ==
    /\ last.op = "select_meeting_date" /\ last.result = Ok
    /\ \E mid \in DOMAIN meetings :
          /\ meetings[mid].status = "cancelled"
          /\ meetings[mid].date # None

\* C2: in every state, every meeting has a rejection_reason if and only if
\* its status is rejected.
C2_ReasonIffRejected ==
    \A mid \in DOMAIN meetings :
        (meetings[mid].rejection_reason # NoReason)
            <=> (meetings[mid].status = "rejected")

\* The creating manager has called update_meeting_status on a meeting
C2_Witness ==
    /\ last.op = "update_meeting_status" /\ last.result = TypeError
    /\ \E mid \in DOMAIN meetings :
          /\ meetings[mid].created_by_type = "manager"
          /\ meetings[mid].rejection_reason = NoReason

\* C3: cancel_meeting on a meeting that is not pending fails and leaves the
\* row (status, updated_at) as it was; called by the meeting's creator it
\* fails with the HTTP 400 "Cannot cancel meeting with status" error, the
\* Conflict of the error taxonomy.
C3_CancelNonPendingRefused ==
    [][last'.op = "cancel_meeting" =>
        \A mid \in DOMAIN meetings, e \in Employees :
          (meetings[mid].status # "pending" /\ CancelMeeting(e, mid))
            => /\ last'.result # Ok
               /\ meetings'[mid] = meetings[mid]
               /\ IsCreator(e, "employee", mid) => last'.result = BadRequest]_vars

\* The creator's cancel_meeting was refused on a cancelled meeting
C3_Witness ==
    /\ last.op = "cancel_meeting" /\ last.result = BadRequest
    /\ \E mid \in DOMAIN meetings :
          /\ meetings[mid].status = "cancelled"
          /\ meetings[mid].created_by_type = "employee"

\* C4: every step in which a meeting's status becomes cancelled starts from
\* pending and is a call by the meeting's creator, id and type.
C4_CancelOnlyByCreatorFromPending ==
    [][\A mid \in DOMAIN meetings :
          (meetings[mid].status # "cancelled" /\ meetings'[mid].status = "cancelled")
            => /\ meetings[mid].status = "pending"
               /\ \/ \E e \in Employees :
                       CancelMeeting(e, mid) /\ IsCreator(e, "employee", mid)
                  \/ \E m \in Managers, r \in Reasons :
                       /\ UpdateMeetingStatus(m, mid, "cancelled", r)
                       /\ IsCreator(m, "manager", mid)]_vars

\* A meeting has just been cancelled by cancel_meeting
C4_Witness ==
    /\ last.op = "cancel_meeting" /\ last.result = Ok
    /\ \E mid \in DOMAIN meetings :
          /\ meetings[mid].status = "cancelled"
          /\ meetings[mid].updated_at # None

\* C5: update_meeting_status by a manager who is not the meeting's creator
\* fails with PermissionDenied and leaves the row unchanged (a call on the
\* meeting either ends that way or is a call by its creating manager); a
\* step from pending to accepted or rejected is a call by the creating
\* manager.
C5_UpdateOnlyByCreatingManager ==
    [][\A mid \in DOMAIN meetings :
          /\ last'.op = "update_meeting_status" =>
                \/ /\ last'.result = PermissionDenied
                   /\ meetings'[mid] = meetings[mid]
                \/ \A m \in Managers, req \in StatusUpdateRequests :
                      UpdateMeetingStatus(m, mid, req.status, req.reason)
                        => IsCreator(m, "manager", mid)
          /\ (/\ meetings[mid].status = "pending"
              /\ meetings'[mid].status \in {"accepted", "rejected"})
                => \E m \in Managers, req \in StatusUpdateRequests :
                      /\ UpdateMeetingStatus(m, mid, req.status, req.reason)
                      /\ IsCreator(m, "manager", mid)]_vars

\* update_meeting_status was refused on a meeting a manager created
C5_Witness ==
    /\ last.op = "update_meeting_status" /\ last.result = PermissionDenied
    /\ \E mid \in DOMAIN meetings : meetings[mid].created_by_type = "manager"

\* C6: update_meeting_status to rejected with a missing or empty reason,
\* called by the meeting's creating manager, is refused with the
\* validation error (HTTP 400) and the meeting is left unchanged; no
\* meeting is rejected without a non-empty reason.
C6_RejectWithoutReasonIsInvalid ==
    [][last'.op = "update_meeting_status" =>
        \A m \in Managers, mid \in DOMAIN meetings, r \in {NoReason, ""} :
          (IsCreator(m, "manager", mid) /\ UpdateMeetingStatus(m, mid, "rejected", r))
            => /\ last'.result = BadRequest
               /\ meetings' = meetings
               /\ \A k \in DOMAIN meetings' :
                     meetings'[k].status = "rejected"
                       => meetings'[k].rejection_reason \notin {NoReason, ""}]_vars

\* C7: after every successful select_meeting_date(manager, meeting, d)
\* exactly one ProposedDate row of the meeting is selected, its date is d,
\* and meeting.date = d.
C7_ExactlyOneSelectedAfterSelect ==
    [][(last'.op = "select_meeting_date" /\ last'.result = Ok) =>
        \A m \in Managers, mid \in DOMAIN meetings, d \in Dates :
          SelectMeetingDate(m, mid, d)
            => /\ Cardinality(SelectedRows(proposed_dates', mid)) = 1
               /\ \A i \in SelectedRows(proposed_dates', mid) :
                     proposed_dates'[i].date = d
               /\ meetings'[mid].date = d]_vars

\* C8: in every state each meeting has at most one selected ProposedDate row.
C8_AtMostOneSelected ==
    \A mid \in DOMAIN meetings :
        Cardinality(SelectedRows(proposed_dates, mid)) <= 1

\* C9: select_meeting_date on a missing meeting fails with NotFound; on an
\* existing meeting, called by a manager who is not meeting.manager_id, it
\* fails with PermissionDenied whether or not the date is proposed, and
\* meeting.date and every is_selected flag keep their values.
C9_SelectByOtherManagerDenied ==
    [][last'.op = "select_meeting_date" =>
        \A m \in Managers, mid \in MeetingIds, d \in Dates :
          SelectMeetingDate(m, mid, d)
            => /\ ~Exists(mid) => last'.result = NotFound
               /\ (Exists(mid) /\ meetings[mid].manager_id # m)
                    => /\ last'.result = PermissionDenied
                       /\ meetings' = meetings
                       /\ proposed_dates' = proposed_dates]_vars

\* select_meeting_date was refused for an employee-requested meeting
C9_Witness ==
    /\ last.op = "select_meeting_date" /\ last.result = PermissionDenied
    /\ \E mid \in DOMAIN meetings : ProposedOf(mid) # {}

\* C10: select_meeting_date with a date that no ProposedDate row of the
\* meeting carries fails and leaves meeting.date and all is_selected flags
\* as they were; called by the meeting's manager it fails with the HTTP 400
\* "Selected date is not in the proposed dates" error (InvalidArgument).
C10_SelectUnproposedDateRefused ==
    [][last'.op = "select_meeting_date" =>
        \A m \in Managers, mid \in DOMAIN meetings, d \in Dates :
          (~IsProposed(mid, d) /\ SelectMeetingDate(m, mid, d))
            => /\ last'.result # Ok
               /\ meetings' = meetings
               /\ proposed_dates' = proposed_dates
               /\ meetings[mid].manager_id = m => last'.result = BadRequest]_vars

\* An unproposed date was refused while an earlier selection is in place
C10_Witness ==
    /\ last.op = "select_meeting_date" /\ last.result = BadRequest
    /\ \E mid \in DOMAIN meetings :
          /\ meetings[mid].date # None
          /\ SelectedRows(proposed_dates, mid) # {}

----------------------------------------------------------------------------
(* Properties of get_manager_availability, stated on its response *)

AvailabilityCalled == last.op = "get_manager_availability"

\* The slots and busy slots of the response, as sets
AvailableSet == Range(last.response.available_slots)
BusySet == Range(last.response.busy_slots)

\* Two intervals share more than an endpoint
Intersect(a_start, a_end, b_start, b_end) == a_start < b_end /\ b_start < a_end

\* The meetings that keep manager m busy: m's pending and accepted meetings
BlockingMeetings(m) ==
    {i \in DOMAIN meetings :
        /\ meetings[i].manager_id = m
        /\ meetings[i].status \in {"pending", "accepted"}}

MeetingEnd(i) == meetings[i].date + meetings[i].duration

\* The calendar days (numbered from the Monday datetimes count from) from
\* the day of start_date to the day of end_date
DaysOfRange == (last.start_date \div 1440)..(last.end_date \div 1440)

WorkingDaysOfRange == {d \in DaysOfRange : d % 7 \in 0..4}

\* The sixteen half-hour slots from 09:00 to 17:00 of day d
SlotsOfDay(d) ==
    {[start |-> d * 1440 + 9 * 60 + 30 * k,
      end |-> d * 1440 + 9 * 60 + 30 * (k + 1)] : k \in 0..15}

\* Slot s intersects a busy slot of the response
IsBusy(s) == \E b \in BusySet : Intersect(s.start, s.end, b.start, b.end)

\* C11: no slot of available_slots intersects a pending or accepted meeting
\* of the manager asked about, wherever in the days of the range it lies.
C11_AvailableSlotsFreeOfBlockingMeetings ==
    AvailabilityCalled =>
        \A s \in AvailableSet, i \in BlockingMeetings(last.response.manager_id) :
            ~Intersect(s.start, s.end, meetings[i].date, MeetingEnd(i))

\* C12: a rejected or cancelled meeting is in no busy slot, and a slot of a
\* working day of the range is missing from available_slots only if a
\* pending or accepted meeting of the manager intersects it.
C12_OnlyPendingAndAcceptedBlock ==
    AvailabilityCalled =>
        /\ \A i \in DOMAIN meetings :
              meetings[i].status \in {"rejected", "cancelled"} =>
                  \A b \in BusySet : b.title # meetings[i].title
        /\ \A d \in WorkingDaysOfRange : \A s \in SlotsOfDay(d) :
              s \notin AvailableSet =>
                  \E i \in BlockingMeetings(last.response.manager_id) :
                      Intersect(s.start, s.end, meetings[i].date, MeetingEnd(i))

\* a cancelled meeting of the manager lies in the range asked about, and a
\* slot it intersects is returned as available
C12_Witness ==
    /\ AvailabilityCalled
    /\ \E i \in DOMAIN meetings :
          /\ meetings[i].status = "cancelled"
          /\ meetings[i].manager_id = last.response.manager_id
          /\ meetings[i].date >= last.start_date
          /\ meetings[i].date <= last.end_date
          /\ \E s \in AvailableSet :
                Intersect(s.start, s.end, meetings[i].date, MeetingEnd(i))

SlotAt(t, hour, minute) ==
    [start |-> replace(t, hour, minute), end |-> replace(t, hour, minute) + 30]

\* The table holds one meeting, pending, Tuesday 10:00 to 11:00, and its
\* manager's availability was asked for that Tuesday
TuesdayMeetingAsked ==
    /\ AvailabilityCalled
    /\ Len(meetings) = 1
    /\ meetings[1].status = "pending"
    /\ meetings[1].date = At(Tuesday, 10, 0)
    /\ meetings[1].duration = 60
    /\ meetings[1].manager_id = last.response.manager_id
    /\ last.start_date = At(Tuesday, 0, 0)
    /\ last.end_date = At(Tuesday, 23, 59)

\* C14: a slot that a busy slot only touches at an endpoint is available.
\* With one pending meeting on Tuesday 10:00-11:00 the busy slot is
\* 10:00-11:00, the 10:00 and 10:30 slots are not available and the 09:00,
\* 09:30 and 11:00 slots are.
C14_OverlapExclusiveAtEndpoints ==
    /\ AvailabilityCalled =>
          \A d \in WorkingDaysOfRange : \A s \in SlotsOfDay(d) :
              (\A b \in BusySet : b.end <= s.start \/ b.start >= s.end)
                  => s \in AvailableSet
    /\ TuesdayMeetingAsked =>
          /\ {[start |-> b.start, end |-> b.end] : b \in BusySet}
                = {[start |-> At(Tuesday, 10, 0), end |-> At(Tuesday, 11, 0)]}
          /\ SlotAt(last.start_date, 10, 0) \notin AvailableSet
          /\ SlotAt(last.start_date, 10, 30) \notin AvailableSet
          /\ SlotAt(last.start_date, 9, 0) \in AvailableSet
          /\ SlotAt(last.start_date, 9, 30) \in AvailableSet
          /\ SlotAt(last.start_date, 11, 0) \in AvailableSet

C14_Witness ==
    /\ TuesdayMeetingAsked
    /\ SlotAt(last.start_date, 11, 0) \in AvailableSet

\* C15: a call with start = end succeeds and returns no available slot and
\* no busy slot.
C15_ZeroLengthRangeIsEmpty ==
    (AvailabilityCalled /\ last.start_date = last.end_date) =>
        /\ last.result = Ok
        /\ last.response.available_slots = <<>>
        /\ last.response.busy_slots = <<>>

\* C16: available_slots lists slots in strictly increasing order (no day is
\* gone through twice); each lies on a Monday-Friday day of the range,
\* between 09:00 and 17:00; and every Monday-Friday day of the range none of
\* whose slots a blocking meeting intersects yields its sixteen slots.
C16_EveryDayOnceWorkingHoursOnly ==
    AvailabilityCalled =>
        LET slots == last.response.available_slots IN
        /\ \A i, j \in DOMAIN slots : i < j => slots[i].start < slots[j].start
        /\ \A s \in AvailableSet :
              /\ (s.start \div 1440) \in WorkingDaysOfRange
              /\ s.start % 1440 >= 9 * 60
              /\ s.end = s.start + 30
              /\ s.end % 1440 <= 17 * 60
              /\ s.end \div 1440 = s.start \div 1440
        /\ \A d \in WorkingDaysOfRange :
              (\A s \in SlotsOfDay(d),
                  i \in BlockingMeetings(last.response.manager_id) :
                    ~Intersect(s.start, s.end, meetings[i].date, MeetingEnd(i)))
                  => SlotsOfDay(d) \subseteq AvailableSet

\* a range of several days that holds a Saturday, with slots returned
C16_Witness ==
    /\ AvailabilityCalled
    /\ Cardinality(WorkingDaysOfRange) > 1
    /\ \E d \in DaysOfRange : d % 7 = 5
    /\ AvailableSet # {}

\* C17: a call of get_manager_availability leaves the Meeting rows and the
\* ProposedDate rows as they were.
C17_AvailabilityWritesNothing ==
    [][last'.op = "get_manager_availability"
          => meetings' = meetings /\ proposed_dates' = proposed_dates]_vars

\* the call found meetings of the manager in the range
C17_Witness ==
    /\ AvailabilityCalled
    /\ BusySet # {}

----------------------------------------------------------------------------
(* Properties of request_meeting, of failed commits and of notifications *)

\* C18: request_meeting by an existing employee with one to five proposed
\* dates succeeds and adds one meeting: pending, created by that employee,
\* for the employee's manager, without a date, with one unselected
\* ProposedDate row per date submitted.
C18_RequestMeetingSucceeds ==
    [][last'.op = "request_meeting" =>
          \A e \in Employees, ds \in ProposedDateLists :
              RequestMeeting(e, ds) =>
                  LET mid == Len(meetings) + 1 IN
                  /\ last'.result = Ok
                  /\ Len(meetings') = mid
                  /\ meetings'[mid].status = "pending"
                  /\ meetings'[mid].created_by_id = e
                  /\ meetings'[mid].created_by_type = "employee"
                  /\ meetings'[mid].manager_id = EmployeeManager[e]
                  /\ meetings'[mid].date = None
                  /\ Len(proposed_dates') = Len(proposed_dates) + Len(ds)
                  /\ \A i \in 1..Len(ds) :
                        proposed_dates'[Len(proposed_dates) + i] =
                            [meeting_id |-> mid, date |-> ds[i],
                             is_selected |-> FALSE]]_vars

\* C19: no state holds a meeting a manager created without its employees,
\* or a meeting an employee requested without its ProposedDate rows.
C19_NoPartialMeeting ==
    \A mid \in DOMAIN meetings :
        /\ meetings[mid].created_by_type = "manager"
              => meetings[mid].employees # {}
        /\ meetings[mid].created_by_type = "employee"
              => ProposedOf(mid) # {}

\* C20: a function that committed rows and then came to send its
\* notification returns success, whatever becomes of the notification.
C20_NotificationFailureKeepsSuccess ==
    [][(/\ last'.op \in {"create_meeting", "update_meeting_status",
                         "select_meeting_date", "request_meeting"}
        /\ <<meetings, proposed_dates>>' # <<meetings, proposed_dates>>)
          => last'.result = Ok]_vars

----------------------------------------------------------------------------
(* Properties of the accounts *)

\* No two rows of a table carry the same email
EmailsDistinct(rows) ==
    \A i, j \in DOMAIN rows : rows[i].email = rows[j].email => i = j

\* C21: when requests with the same email pass the existence check
\* together, one row with that email exists afterwards and every request
\* that comes to insert second is refused with HTTP 400 (AlreadyExists),
\* in register_manager, create_employee and add_employee alike.
C21_EmailRaceLoserGetsAlreadyExists ==
    [][\A r \in in_flight :
          SignupCommit(r) =>
              /\ EmailsDistinct(manager_rows') /\ EmailsDistinct(employee_rows')
              /\ EmailRegistered(SignupTable(r.op), r.email)
                    => last'.result = BadRequest]_vars

\* C22: every successful location report of an employee adds one Location
\* row with that employee's id, after the rows already there, and leaves
\* those rows as they were.
C22_LocationLogAppendOnly ==
    [][last'.op \in {"post_location", "update_location"} =>
          \A u \in CurrentUsers, position \in Positions :
              (/\ PostLocation(u.id, position) \/ UpdateLocation(u, position)
               /\ last'.result = Ok)
                  => /\ Len(locations') = Len(locations) + 1
                     /\ SubSeq(locations', 1, Len(locations)) = locations
                     /\ locations'[Len(locations')].employee_id = u.id]_vars

----------------------------------------------------------------------------
(* Properties of create_meeting and of requested meetings *)

\* C23: a meeting made by create_meeting carries its creator as manager_id,
\* is among the meetings get_meetings returns for that manager, and is
\* found by the query of get_manager_availability for that manager over a
\* range that holds its date.
C23_CreatedMeetingBelongsToCreator ==
    \A mid \in DOMAIN meetings :
        meetings[mid].created_by_type = "manager" =>
            LET creator == meetings[mid].created_by_id IN
            /\ meetings[mid].manager_id = creator
            /\ mid \in get_meetings(creator)
            /\ meetings[mid].status = "pending" =>
                  meetings[mid] \in Range(MeetingsInRange(creator,
                                                          meetings[mid].date,
                                                          meetings[mid].date))

\* C24: a meeting an employee requested is pending or cancelled in every
\* state, whatever update_meeting_status, select_meeting_date and
\* cancel_meeting calls were made.
C24_RequestedMeetingPendingOrCancelled ==
    \A mid \in DOMAIN meetings :
        meetings[mid].created_by_type = "employee" =>
            meetings[mid].status \in {"pending", "cancelled"}

\* update_meeting_status was called while a requested meeting exists, and
\* the meeting is still pending
C24_Witness ==
    /\ last.op = "update_meeting_status"
    /\ \E mid \in DOMAIN meetings :
          /\ meetings[mid].created_by_type = "employee"
          /\ meetings[mid].status = "pending"

\* Every id of the list is an employee of the manager
AllEmployeesOf(manager_id, employee_ids) ==
    \A i \in DOMAIN employee_ids :
        /\ employee_ids[i] \in Employees
        /\ EmployeeManager[employee_ids[i]] = manager_id

\* C29: create_meeting succeeds exactly when every id of employee_ids is an
\* employee of the calling manager, a repeated id included; otherwise it
\* ends with HTTP 400 and writes no meeting.
C29_CreateMeetingIffAllOwnEmployees ==
    [][last'.op = "create_meeting" =>
          \A m \in Managers, ids \in EmployeeIdLists, d \in Dates :
              CreateMeeting(m, ids, d) =>
                  IF AllEmployeesOf(m, ids)
                  THEN /\ last'.result = Ok
                       /\ Len(meetings') = Len(meetings) + 1
                  ELSE /\ last'.result = BadRequest
                       /\ meetings' = meetings]_vars

----------------------------------------------------------------------------
(* Properties of signup, verification and login *)

\* The last call returned a token for a manager
ManagerTokenIssued ==
    /\ last.op \in {"login_user", "verify_manager_otp"}
    /\ last.result = Ok
    /\ last.token.type = "manager"

\* C25: a token for a manager is issued, by login_user or by
\* verify_manager_otp, only while the manager is verified and approved.
C25_ManagerTokenOnlyIfVerifiedAndApproved ==
    ManagerTokenIssued =>
        /\ manager_rows[last.token.sub].is_verified
        /\ manager_rows[last.token.sub].is_approved

\* C26: a successful verify_manager_otp clears otp and otp_created_at; every
\* verify_manager_otp for a manager verified before fails with an OTP
\* verification error and no token; a wrong OTP, or one older than ten
\* minutes, is refused and leaves the row as it was.
C26_ManagerOtpSingleUse ==
    [][last'.op = "verify_manager_otp" =>
          \A email \in SignupEmails, otp \in Otps :
              (VerifyManagerOtp(email, otp) /\ EmailRegistered(manager_rows, email))
                  => LET id == RowOfEmail(manager_rows, email) IN
                     /\ last'.result = Ok =>
                           /\ manager_rows'[id].otp = NoOtp
                           /\ manager_rows'[id].otp_created_at = None
                     /\ (\/ manager_rows[id].is_verified
                         \/ manager_rows[id].otp # otp
                         \/ now > manager_rows[id].otp_created_at + 10)
                           => /\ last'.result = OTPVerificationException
                              /\ manager_rows' = manager_rows]_vars

\* verify_manager_otp was tried again for a manager already verified
C26_Witness ==
    /\ last.op = "verify_manager_otp"
    /\ last.result = OTPVerificationException
    /\ \E id \in DOMAIN manager_rows : manager_rows[id].is_verified

\* C27: login_user for an employee not yet verified ends in a credentials
\* error; a successful verify_employee clears the token, and no later call
\* changes the row of a verified employee, its password included.
C27_EmployeeLoginOnlyAfterVerification ==
    [][/\ \A email \in Emails, password \in Passwords :
             (/\ LoginUser("employee", email, password)
              /\ \A i \in DOMAIN employee_rows :
                    employee_rows[i].email = email => ~employee_rows[i].is_verified)
                 => last'.result = CredentialsException
       /\ \A i \in DOMAIN employee_rows :
             IF employee_rows[i].is_verified
             THEN employee_rows'[i] = employee_rows[i]
             ELSE employee_rows'[i].is_verified
                     => employee_rows'[i].verification_token = NoToken]_vars

\* verify_employee was tried again after the employee was verified
C27_Witness ==
    /\ last.op = "verify_employee"
    /\ last.result = VerificationTokenException
    /\ \E i \in DOMAIN employee_rows : employee_rows[i].is_verified

DistinctProposals(mid) ==
    \A i, j \in ProposedOf(mid) :
        proposed_dates[i].date = proposed_dates[j].date => i = j

\* C30: once the concurrent select_meeting_date calls on a meeting have all
\* committed, exactly one of its ProposedDate rows is selected and
\* meeting.date is the date of that row (stated for a meeting with proposed
\* dates, pairwise distinct, that has had a date selected; a repeated date
\* is the case of C7).
C30_ConcurrentSelectLeavesOneSelected ==
    (in_flight = {})
        => \A mid \in DOMAIN meetings :
              (/\ ProposedOf(mid) # {}
               /\ DistinctProposals(mid)
               /\ meetings[mid].date # None)
                  => /\ Cardinality(SelectedRows(proposed_dates, mid)) = 1
                     /\ \A i \in SelectedRows(proposed_dates, mid) :
                           proposed_dates[i].date = meetings[mid].date

====
